---- MODULE Spec2Model ----
(***************************************************************************)
(* Model of the IntelligensiDeploy orchestration core.                     *)
(*                                                                         *)
(*   Spec      core/state_machine.py : StateMachine over its JSON store    *)
(*   SpecWait  infra/lambda_api.py   : LambdaClient.wait_for_instance      *)
(*                                                                         *)
(* Abstractions: the timestamp of a TransitionRecord is the single value   *)
(* Now (datetime.utcnow() is never read back by the code); a transition    *)
(* context is either the empty dict or one fixed non-empty dict; logging   *)
(* is left out (the logger never changes control flow); the list a caller  *)
(* got from get_history() is followed until the caller's next call.        *)
(***************************************************************************)
EXTENDS Integers, Sequences, FiniteSets, TLC

VARIABLES
    \* ---- StateMachine object (core/state_machine.py) ----
    alive,                \* TRUE once a constructor call has returned an object
    initial_state,        \* self.initial_state
    current_state,        \* self.current_state
    allowed_transitions,  \* self.allowed_transitions
    history,              \* self.history
    event_hook,           \* self.event_hook: "none", "ok" or "raises"
    state_store,          \* content of the JSON file behind self.state_store
    args,                 \* the constructor arguments the program passes
    \* ---- observation of the last call ----
    op,                   \* the operation that ran last
    target,               \* target_state of the last transition call
    outcome,              \* "ok" or the exception the last call ended with
    hook_calls,           \* invocations of event_hook made by the last call
    snapshot,             \* the list returned by the last get_history()
    \* ---- LambdaClient.wait_for_instance (infra/lambda_api.py) ----
    wpc,                  \* position of the wait loop
    clock,                \* time.time()
    start,                \* local start
    timeout,              \* argument timeout
    last_status,          \* local last_status
    polls,                \* the results of get_instance so far, in order
    poll_times,           \* time.time() when each of them came back
    wresult,              \* the returned Instance / the raised error
    \* ---- _ssh (deploy/workflow.py) ----
    spc,                  \* position of the retry loop
    ssh_retries,          \* argument retries
    ssh_delay,            \* argument delay
    ssh_log,              \* the CompletedProcess of each attempt, in order
    sleeps,               \* time.sleep(delay) calls made by this _ssh call
    ssh_error,            \* the text the raised DeploymentError carries
    \* ---- _build_env_flags (deploy/workflow.py) ----
    environ,              \* os.environ: the names that are set
    env,                  \* argument env, in configuration order
    flags,                \* what the call gave: the flags or the error
    \* ---- deploy_preset / shutdown_preset (deploy/workflow.py) ----
    map_file,             \* content of STATE_FILE, the deployment map
    instances,            \* the provider's live instances
    launched,             \* instances the provider has launched so far
    dpc,                  \* position of the running call ("idle": none runs)
    dop,                  \* the call that runs or ran last
    dname,                \* its argument name
    dstates,              \* its local states
    dinst,                \* its local instance / state.instance_id
    calls,                \* provider requests it has made, by kind
    issued,               \* bootstrap steps it has issued, in order
    boot_log,             \* how the _ssh call of each finished step ended
    dresult,              \* how it ended
    loaded,               \* whether it has loaded the preset (_get_preset)
    probed,               \* the answer to its health probe, if it made one
    \* ---- two invocations at once over STATE_FILE ----
    procs,                \* each invocation: its call, position and locals
    writes,               \* the invocations that wrote STATE_FILE, in order
    \* ---- AgentAdapter (agent/agent_adapter.py) ----
    plan                  \* the last propose_plan / validate_plan call and its answer

smvars == <<alive, initial_state, current_state, allowed_transitions, history,
            event_hook, state_store, args, op, target, outcome, hook_calls,
            snapshot>>
waitvars == <<wpc, clock, start, timeout, last_status, polls, poll_times, wresult>>
sshvars == <<spc, ssh_retries, ssh_delay, ssh_log, sleeps, ssh_error>>
envvars == <<environ, env, flags>>
depvars == <<map_file, instances, launched, dpc, dop, dname, dstates, dinst, calls,
             issued, boot_log, dresult, loaded, probed>>
racevars == <<procs, writes>>
agentvars == <<plan>>
vars == <<smvars, waitvars, sshvars, envvars, depvars, racevars, agentvars>>

\* ------------------------------------------------------------------------
\* Bounds of the model
\* ------------------------------------------------------------------------
MaxHist == 2        \* transition/reset are explored while len(history) < MaxHist
MaxLatency == 5     \* a get_instance request takes 0 or MaxLatency seconds
MaxTimeout == 25    \* wait_for_instance is called with a timeout up to MaxTimeout
MaxRetries == 3     \* _ssh on its own is called with retries in 1..MaxRetries
MaxEnv == 2         \* _build_env_flags is called with up to MaxEnv entries
MaxInstances == 2   \* the provider launches at most MaxInstances instances

\* ------------------------------------------------------------------------
\* Values
\* ------------------------------------------------------------------------
None == "None"
Now == "t"

States == {"idle", "planning", "provisioning", "building", "deploying",
           "verifying", "running", "updating", "shutdown", "error"}

\* A state name outside the known set, for override tables and targets.
Bogus == "bogus"

Range(s) == {s[i] : i \in 1..Len(s)}

\* dict.get(key, default)
Get(d, k, dflt) == IF k \in DOMAIN d THEN d[k] ELSE dflt

default_transitions_error_from_idle ==
    [idle         |-> <<"planning", "provisioning", "error">>,
     planning     |-> <<"provisioning", "error">>,
     provisioning |-> <<"building", "error">>,
     building     |-> <<"deploying", "error">>,
     deploying    |-> <<"verifying", "running", "error">>,
     verifying    |-> <<"running", "error">>,
     running      |-> <<"updating", "shutdown", "error">>,
     updating     |-> <<"verifying", "running", "error">>,
     shutdown     |-> <<"idle">>,
     error        |-> <<"idle">>]

default_transitions_dead_end ==
    [idle         |-> <<"planning", "provisioning">>,
     planning     |-> <<"provisioning", "error">>,
     provisioning |-> <<"building", "error">>,
     building     |-> <<"deploying", "error">>,
     deploying    |-> <<"verifying", "running", "error">>,
     verifying    |-> <<"running", "error">>,
     running      |-> <<"updating", "shutdown", "error">>,
     updating     |-> <<"verifying", "running", "error">>,
     shutdown     |-> <<"idle">>,
     error        |-> <<>>]

default_transitions ==
    [idle         |-> <<"planning", "provisioning">>,
     planning     |-> <<"provisioning", "error">>,
     provisioning |-> <<"building", "error">>,
     building     |-> <<"deploying", "error">>,
     deploying    |-> <<"verifying", "running", "error">>,
     verifying    |-> <<"running", "error">>,
     running      |-> <<"updating", "shutdown", "error">>,
     updating     |-> <<"verifying", "running", "error">>,
     shutdown     |-> <<"idle">>,
     error        |-> <<"idle">>]

\* Override tables a caller (or a stored record) may supply.
EmptyTable == [s \in {} |-> <<>>]
OverrideTable == [s \in {"idle", "running", Bogus} |->
                    CASE s = "idle" -> <<"running", Bogus>>
                      [] s = "running" -> <<>>
                      [] OTHER -> <<"idle">>]

\* The allowed_transitions constructor argument: None or a mapping.
NoneArg == [is_none |-> TRUE, table |-> EmptyTable]
TableArg(t) == [is_none |-> FALSE, table |-> t]
TableArgs == {NoneArg, TableArg(EmptyTable), TableArg(OverrideTable)}

\* bool(x) of an Optional[Dict]: None and {} are falsy.
Truthy(a) == ~a.is_none /\ DOMAIN a.table # {}

TransitionRecord(ts, from, to, ctx) ==
    [timestamp |-> ts, from_state |-> from, to_state |-> to, context |-> ctx]

EmptyCtx == "{}"
SomeCtx == "{k: v}"
ResetCtx == "{reset: True}"

\* The context argument of transition(): None or a dict.
ContextArgs == {None, SomeCtx}

\* ------------------------------------------------------------------------
\* The JSON file behind state_store
\* ------------------------------------------------------------------------
NoData == [k \in {} |-> None]
NoFile == [kind |-> "absent", data |-> NoData]
Garbage == [kind |-> "garbage", data |-> NoData]     \* text that is not JSON
ArrayDoc == [kind |-> "array", data |-> NoData]      \* valid JSON, not an object
ObjectDoc(d) == [kind |-> "object", data |-> d]

\* A damaged record: no initial_state key, and a history entry that is not
\* the dict of a TransitionRecord (from_state is missing, extra is unknown).
BadHistDoc == ObjectDoc([current_state |-> "running",
                         allowed_transitions |-> OverrideTable,
                         history |-> <<[timestamp |-> Now, to_state |-> "running",
                                        extra |-> "x"]>>])

\* What the program can find behind state_store when it first starts: no
\* file, or a file that was damaged.
InitialStores == {NoFile, Garbage, ArrayDoc, BadHistDoc}

\* json.dumps(payload) of _persist_state: record.__dict__ is the record itself.
Dumps(init, cur, table, hist) ==
    ObjectDoc([initial_state |-> init,
               current_state |-> cur,
               allowed_transitions |-> table,
               history |-> hist])

\* Path.write_text: the file holds the new text, or an OSError leaves it as
\* it was (the error is logged and swallowed by _persist_state).
WriteText(store, text, os_error) == IF os_error THEN store ELSE text

persist_state(store, init, cur, table, hist, os_error) ==
    WriteText(store, Dumps(init, cur, table, hist), os_error)

\* TransitionRecord(**record): TypeError on a missing or an unexpected key.
Constructible(r) ==
    /\ {"timestamp", "from_state", "to_state"} \subseteq DOMAIN r
    /\ DOMAIN r \subseteq {"timestamp", "from_state", "to_state", "context"}

FromDict(r) ==
    TransitionRecord(r.timestamp, r.from_state, r.to_state, Get(r, "context", EmptyCtx))

\* _load_state, as the fields it leaves on the object and the exception that
\* escapes it ("none" when it returns).
load_state(store, init, cur, table) ==
    LET dflt == [raised |-> "none", initial_state |-> init, current_state |-> cur,
                 allowed_transitions |-> table, history |-> <<>>]
        d == store.data
        recs == Get(d, "history", <<>>)
        assigned == [dflt EXCEPT
                        !.initial_state = Get(d, "initial_state", init),
                        !.current_state = Get(d, "current_state", cur),
                        !.allowed_transitions = Get(d, "allowed_transitions", table)]
    IN  CASE store.kind = "absent" -> dflt
          [] store.kind = "garbage" -> dflt          \* JSONDecodeError, caught
          [] store.kind = "array" ->                 \* data.get: AttributeError
                [dflt EXCEPT !.raised = "AttributeError"]
          [] OTHER ->
                IF \A i \in 1..Len(recs) : Constructible(recs[i])
                THEN [assigned EXCEPT !.history = [i \in 1..Len(recs) |-> FromDict(recs[i])]]
                ELSE assigned                        \* TypeError, caught

\* ------------------------------------------------------------------------
\* StateMachine
\* ------------------------------------------------------------------------
\* No list from get_history() is in the caller's hands.
NoSnapshot == [shared |-> FALSE, items |-> <<>>]

\* self.allowed_transitions.get(self.current_state, ())
Allowed(table, cur) == Get(table, cur, <<>>)

PermittedIfKnownKey(table, cur, t) == t \in DOMAIN table

\* not (target_state not in allowed)
Permitted(table, cur, t) == t \in Range(Allowed(table, cur))

\* _emit_event: the hook, when there is one, is called; its exception escapes.
EmitCalls(hook) == IF hook = "none" THEN 0 ELSE 1
EmitOutcome(hook) == IF hook = "raises" THEN "HookError" ELSE "ok"

\* __init__(initial_state, allowed_transitions, state_store, event_hook)
Construct(init, arg, hook) ==
    LET table == IF Truthy(arg) THEN arg.table ELSE default_transitions
        l == load_state(state_store, init, init, table)
    IN  /\ op' = "construct"
        /\ target' = None
        /\ event_hook' = hook
        /\ initial_state' = l.initial_state
        /\ current_state' = l.current_state
        /\ allowed_transitions' = l.allowed_transitions
        /\ history' = l.history
        /\ alive' = (l.raised = "none")
        /\ outcome' = IF l.raised = "none" THEN "ok" ELSE l.raised
        /\ hook_calls' = 0
        /\ snapshot' = NoSnapshot
        /\ UNCHANGED <<state_store, args>>

\* transition(target_state, context)
TransitionHistory(hist, cur, t, ctx) ==
    Append(hist, TransitionRecord(Now, cur, t, IF ctx = None THEN EmptyCtx ELSE ctx))

Transition(t, ctx, os_error) ==
    /\ alive
    /\ op' = "transition"
    /\ target' = t
    /\ IF ~Permitted(allowed_transitions, current_state, t)
       THEN /\ outcome' = "StateTransitionError"
            /\ hook_calls' = 0
            /\ UNCHANGED <<current_state, history, state_store>>
       ELSE /\ Len(history) < MaxHist
            /\ history' = TransitionHistory(history, current_state, t, ctx)
            /\ current_state' = t
            /\ state_store' = persist_state(state_store, initial_state, current_state',
                                            allowed_transitions, history', os_error)
            /\ hook_calls' = EmitCalls(event_hook)
            /\ outcome' = EmitOutcome(event_hook)
    /\ snapshot' = NoSnapshot
    /\ UNCHANGED <<alive, initial_state, allowed_transitions, event_hook, args>>

ResetHistoryFromInitial(hist, init) ==
    Append(hist, TransitionRecord(Now, init, init, ResetCtx))

\* reset()
ResetHistory(hist, init) == Append(hist, TransitionRecord(Now, None, init, ResetCtx))

Reset(os_error) ==
    /\ alive
    /\ Len(history) < MaxHist
    /\ op' = "reset"
    /\ target' = None
    /\ current_state' = initial_state
    /\ history' = ResetHistory(history, initial_state)
    /\ state_store' = persist_state(state_store, initial_state, current_state',
                                    allowed_transitions, history', os_error)
    /\ hook_calls' = EmitCalls(event_hook)
    /\ outcome' = EmitOutcome(event_hook)
    /\ snapshot' = NoSnapshot
    /\ UNCHANGED <<alive, initial_state, allowed_transitions, event_hook, args>>

get_history_shared(hist) == [shared |-> TRUE, items |-> hist]

\* get_history(): list(self.history) is a new list, not the object's own.
get_history(hist) == [shared |-> FALSE, items |-> hist]

GetHistory ==
    /\ alive
    /\ op' = "get_history"
    /\ target' = None
    /\ outcome' = "ok"
    /\ hook_calls' = 0
    /\ snapshot' = get_history(history)
    /\ UNCHANGED <<alive, initial_state, current_state, allowed_transitions, history,
                   event_hook, state_store, args>>

\* The caller changes the list it was handed: pop() or append(x).  A list the
\* object shares changes with it.
MutateSnapshot(pop) ==
    /\ alive
    /\ op = "get_history" \/ op = "mutate_snapshot"
    /\ IF pop THEN snapshot.items # <<>> ELSE Len(snapshot.items) < MaxHist
    /\ op' = "mutate_snapshot"
    /\ target' = None
    /\ outcome' = "ok"
    /\ hook_calls' = 0
    /\ snapshot' = [snapshot EXCEPT !.items =
                        IF pop THEN SubSeq(@, 1, Len(@) - 1)
                        ELSE Append(@, TransitionRecord(Now, None, Bogus, EmptyCtx))]
    /\ history' = IF snapshot.shared THEN snapshot'.items ELSE history
    /\ UNCHANGED <<alive, initial_state, current_state, allowed_transitions,
                   event_hook, state_store, args>>

\* ------------------------------------------------------------------------
\* LambdaClient.wait_for_instance
\* ------------------------------------------------------------------------
PollInterval == 10      \* time.sleep(10)

InstanceId == "i-1"
Addresses == {"10.0.0.7", "10.0.0.8"}
\* inst.get("ip"): absent (None), the empty string, or an address
Ips == {None, ""} \cup Addresses
Statuses == {"booting", "active"}

Instance(id, ip, status) == [id |-> id, ip |-> ip, status |-> status]

\* What get_instance can return for the polled id.
PollResults == {Instance(InstanceId, ip, st) : ip \in Ips, st \in Statuses}

Latencies == {0, MaxLatency}
\* The timeout of the documented scenario: two poll intervals.
ScenarioTimeout == 2 * PollInterval
Timeouts == {0, ScenarioTimeout, MaxTimeout}

NoInstance == Instance(None, None, None)
NoResult == [kind |-> "none", instance |-> NoInstance, status |-> None]

HasIpNotNone(inst) == inst.ip # None

\* bool(instance.ip)
HasIp(inst) == inst.ip # None /\ inst.ip # ""

\* time.time() - start > timeout
TimedOutAtBudget(now, st, tmo) == now - st >= tmo

TimedOutReversed(now, st, tmo) == st - now > tmo

TimedOut(now, st, tmo) == now - st > tmo

\* start = time.time(); last_status = "pending"
WaitCall(tmo) ==
    /\ wpc = "idle"
    /\ wpc' = "loop"
    /\ timeout' = tmo
    /\ start' = clock
    /\ last_status' = "pending"
    /\ UNCHANGED <<clock, polls, poll_times, wresult>>

\* One turn of the while loop: get_instance answers inst after lat seconds.
WaitPoll(inst, lat) ==
    /\ wpc = "loop"
    /\ polls' = Append(polls, inst)
    /\ poll_times' = Append(poll_times, clock + lat)
    /\ last_status' = inst.status
    /\ IF HasIp(inst)
       THEN /\ wpc' = "returned"
            /\ wresult' = [kind |-> "instance", instance |-> inst, status |-> None]
            /\ clock' = clock + lat
       ELSE IF TimedOut(clock + lat, start, timeout)
       THEN /\ wpc' = "raised"
            /\ wresult' = [kind |-> "timeout", instance |-> NoInstance,
                           status |-> last_status']
            /\ clock' = clock + lat
       ELSE /\ wpc' = "loop"
            /\ clock' = clock + lat + PollInterval
            /\ UNCHANGED wresult
    /\ UNCHANGED <<start, timeout>>

\* get_instance raises LambdaAPIError (_request failed): it escapes the loop.
WaitPollFails(lat) ==
    /\ wpc = "loop"
    /\ wpc' = "raised"
    /\ clock' = clock + lat
    /\ wresult' = [kind |-> "api_error", instance |-> NoInstance, status |-> None]
    /\ UNCHANGED <<start, timeout, last_status, polls, poll_times>>


\* ------------------------------------------------------------------------
\* _ssh
\* ------------------------------------------------------------------------
\* subprocess.run(ssh_cmd, capture_output=True, text=True)
CompletedProcess(rc, out, err) == [returncode |-> rc, stdout |-> out, stderr |-> err]

SshOk == CompletedProcess(0, "", "")
SshFailures == {CompletedProcess(255, out, err) :
                   out \in {"", "out"}, err \in {"", "refused"}}
SshResults == {SshOk} \cup SshFailures

Delays == {0, 5}

\* process.stderr or process.stdout
ErrorText(p) == IF p.stderr # "" THEN p.stderr ELSE p.stdout

LoopOverOneMore(attempt, retries) == attempt = retries + 1

\* for attempt in range(1, retries + 1): the attempt made was the last one
LoopOver(attempt, retries) == attempt = retries

\* _ssh(..., retries, delay) is entered.
SshCall(retries, delay) ==
    /\ spc = "idle"
    /\ spc' = "loop"
    /\ ssh_retries' = retries
    /\ ssh_delay' = delay
    /\ ssh_log' = <<>>
    /\ sleeps' = 0
    /\ ssh_error' = None

\* One turn of the for loop: the ssh process ends with p.  A zero return code
\* returns; otherwise the attempt is printed and delay is slept, and after
\* the last turn DeploymentError is raised.
SshAttempt(p) ==
    /\ spc = "loop"
    /\ ssh_log' = Append(ssh_log, p)
    /\ IF p.returncode = 0
       THEN /\ spc' = "returned"
            /\ UNCHANGED <<sleeps, ssh_error>>
       ELSE /\ sleeps' = sleeps + 1
            /\ IF LoopOver(Len(ssh_log'), ssh_retries)
               THEN /\ spc' = "raised"
                    /\ ssh_error' = ErrorText(p)
               ELSE /\ spc' = "loop"
                    /\ UNCHANGED ssh_error
    /\ UNCHANGED <<ssh_retries, ssh_delay>>

InitSsh ==
    /\ spc = "idle"
    /\ ssh_retries = 0
    /\ ssh_delay = 0
    /\ ssh_log = <<>>
    /\ sleeps = 0
    /\ ssh_error = None

\* ------------------------------------------------------------------------
\* _build_env_flags
\* ------------------------------------------------------------------------
\* A value is None or a text, written as its pieces in order: plain text
\* (no "$", "{", "}" or "~" in it) or a ${NAME} reference.
EnvNames == {"A", "B"}
Plain == [ref |-> FALSE, text |-> "x"]
Ref(n) == [ref |-> TRUE, text |-> n]
\* What os.path.expandvars puts for a name that is set: plain text.
ValueOf(n) == [ref |-> FALSE, text |-> n]

Pieces == {Plain} \cup {Ref(n) : n \in EnvNames}
Texts == {<<>>} \cup {<<a>> : a \in Pieces} \cup {<<Plain, Ref("B")>>, <<Ref("B"), Plain>>,
                                                  <<Ref("A"), Ref("B")>>}
EnvValues == [none : {TRUE}, text : {<<>>}] \cup [none : {FALSE}, text : Texts]
EnvKeys == {"K1", "K2"}

\* dicts of up to MaxEnv entries, as their items in order
EnvEntries == [key : EnvKeys, value : EnvValues]
EnvDicts == UNION {[1..n -> EnvEntries] : n \in 0..MaxEnv}
DistinctKeys(d) == \A i, j \in 1..Len(d) : d[i].key = d[j].key => i = j

\* os.path.expandvars: a ${NAME} whose NAME is set is replaced by its value,
\* any other reference is left as it is.  (expanduser changes nothing: no
\* text starts with "~".)
expand(text, set_names) ==
    [i \in 1..Len(text) |->
        IF text[i].ref /\ text[i].text \in set_names THEN ValueOf(text[i].text)
        ELSE text[i]]

\* expanded.startswith("${") and expanded.endswith("}")
Unresolved(x) == x # <<>> /\ x[1].ref /\ x[Len(x)].ref

RECURSIVE BuildFrom(_, _, _, _)
\* the for loop of _build_env_flags from entry i on, parts collected so far
BuildFrom(d, i, parts, set_names) ==
    IF i > Len(d) THEN [raised |-> FALSE, key |-> None, parts |-> parts]
    ELSE IF d[i].value.none THEN BuildFrom(d, i + 1, parts, set_names)
    ELSE LET expanded == expand(d[i].value.text, set_names)
         IN  IF Unresolved(expanded)
             THEN [raised |-> TRUE, key |-> d[i].key, parts |-> parts]
             ELSE BuildFrom(d, i + 1,
                            Append(parts, [key |-> d[i].key, value |-> expanded]),
                            set_names)

\* _build_env_flags(env): DeploymentError, or one "-e key='value'" per part
build_env_flags(d, set_names) == BuildFrom(d, 1, <<>>, set_names)

NoFlags == [called |-> FALSE, raised |-> FALSE, key |-> None, parts |-> <<>>]

BuildEnvFlags ==
    /\ ~flags.called
    /\ LET r == build_env_flags(env, environ)
       IN  flags' = [called |-> TRUE, raised |-> r.raised, key |-> r.key,
                     parts |-> r.parts]
    /\ UNCHANGED <<environ, env>>

InitEnv ==
    /\ environ = {}
    /\ env = <<>>
    /\ flags = NoFlags

\* ------------------------------------------------------------------------
\* The deployment map (STATE_FILE) and the provider
\* ------------------------------------------------------------------------
Presets == {"A", "B"}

AddressOf(id) == <<"10.0.0", id>>

\* DeploymentState(preset, instance_id, ip)
DeploymentState(name, id, ip) == [preset |-> name, instance_id |-> id, ip |-> ip]

NoEntries == [n \in {} |-> None]
NoMap == [kind |-> "absent", data |-> NoEntries]
GarbageMap == [kind |-> "garbage", data |-> NoEntries]   \* text that is not JSON
MapDoc(d) == [kind |-> "object", data |-> d]

\* An entry for B that lacks "ip".
BrokenMap == MapDoc([n \in {"B"} |-> [preset |-> "B", instance_id |-> 0]])

InitialMaps == {NoMap, GarbageMap, BrokenMap}

\* load_state: {} for a missing file and for text that is not JSON
load_map(file) == IF file.kind = "object" THEN file.data ELSE NoEntries

read_states_lenient(file) ==
    LET raw == load_map(file)
    IN  [n \in DOMAIN raw |-> DeploymentState(n, raw[n].instance_id, None)]

read_states_nothing(file) == NoEntries

\* _read_states: values that are not dicts, or that lack a key, are skipped
read_states(file) ==
    LET raw == load_map(file)
        ok == {n \in DOMAIN raw :
                  /\ "scalar" \notin DOMAIN raw[n]
                  /\ {"preset", "instance_id", "ip"} \subseteq DOMAIN raw[n]}
    IN  [n \in ok |-> DeploymentState(raw[n].preset, raw[n].instance_id, raw[n].ip)]

save_state_skipped(file, states, os_error) == file

\* save_state: write_text(json.dumps(state)); an OSError leaves the file
save_state(file, states, os_error) == IF os_error THEN file ELSE MapDoc(states)

\* _write_states
write_states_keeping(file, states, os_error) ==
    LET old == read_states(file)
    IN  save_state(file, [n \in DOMAIN states \cup DOMAIN old |->
                             IF n \in DOMAIN old THEN old[n] ELSE states[n]], os_error)

write_states(file, states, os_error) ==
    save_state(file, [n \in DOMAIN states |->
                         DeploymentState(states[n].preset, states[n].instance_id,
                                         states[n].ip)], os_error)

NoCalls == [launch |-> 0, get |-> 0, delete |-> 0]
NoDeployInstance == [id |-> 0, ip |-> None]
Ended(kind, why) == [kind |-> kind, why |-> why]
NotEnded == Ended("none", None)

\* ------------------------------------------------------------------------
\* deploy_preset
\* ------------------------------------------------------------------------
DefaultRetries == 20    \* _ssh(..., retries: int = 20, ...)
DefaultDelay == 5       \* _ssh(..., delay: int = 5)

\* The remote commands of _bootstrap_remote, in the order of the source.
BootSteps == <<"remove_old", "prep_install", "add_key", "add_repo",
               "install_docker", "enable_docker", "run_cmd">>

\* preset.env as the preset file gives it
PresetEnvs == {<<[key |-> "K1", value |-> [none |-> FALSE, text |-> <<Ref("A")>>]]>>,
               <<[key |-> "K1", value |-> [none |-> FALSE, text |-> <<Ref("B")>>]]>>,
               <<[key |-> "K1", value |-> [none |-> FALSE, text |-> <<Plain, Ref("B")>>]]>>}

\* What the remote host answers in a deployment.
DeployResults == {SshOk, CompletedProcess(255, "", "refused")}

\* Answers to POST /instance-operations/launch
\* ("operation": the launch is accepted and answered with an operation
\* handle and no instance_ids; "malformed": a body that is not JSON)
LaunchAnswers == {"instance_ids", "no_instance_ids", "operation", "http_error",
                  "url_error", "malformed"}
\* How a wait_for_instance call ends
WaitAnswers == {"address", "timeout", "api_error", "malformed"}
\* Answers to DELETE /instances/<id>
\* ("not_found": HTTP 404, the instance is gone; "malformed": the delete is
\* accepted and answered with a body that is not JSON, e.g. an empty one)
DeleteAnswers == {"ok", "not_found", "http_error", "url_error", "malformed"}
\* Answers to the GET of the health URL
ProbeAnswers == {"refused", "not_json", "empty_object", "object", "list"}
NoProbe == "none"

already_deployed_never(name, states) == FALSE

\* name in states
already_deployed(name, states) == name \in DOMAIN states

\* A call ends: nothing runs any more.
End(kind, why) ==
    /\ dpc' = "idle"
    /\ dresult' = Ended(kind, why)

\* _request: HTTPError and URLError become LambdaAPIError, which deploy_preset
\* and shutdown_preset turn into DeploymentError; json.loads of a body that
\* is not JSON raises JSONDecodeError, which nothing catches.
Raised(answer) ==
    IF answer = "malformed" THEN End("JSONDecodeError", answer)
    ELSE End("DeploymentError", answer)

launch_outcome_retry(answer) ==
    IF answer = "instance_ids" THEN "wait"
    ELSE IF answer = "no_instance_ids" THEN "again" ELSE "raise"

\* create_instance after the launch request: wait for the first of the
\* instance_ids, or raise when there is none
launch_outcome(answer) == IF answer = "instance_ids" THEN "wait" ELSE "raise"

\* deploy_preset(name) up to the provider: _get_preset, the required
\* secrets, _read_states and the test for an existing record.
DeployBegin(name, preset_ok, penv) ==
    /\ dpc = "idle"
    /\ dop' = "deploy"
    /\ dname' = name
    /\ calls' = NoCalls
    /\ issued' = <<>>
    /\ boot_log' = <<>>
    /\ dinst' = NoDeployInstance
    /\ env' = penv
    /\ flags' = NoFlags
    /\ dstates' = read_states(map_file)
    /\ loaded' = TRUE
    /\ probed' = NoProbe
    /\ IF ~preset_ok THEN End("DeploymentError", "preset")
       ELSE IF "HF_TOKEN" \notin environ THEN End("DeploymentError", "secret")
       ELSE IF already_deployed(name, dstates') THEN End("DeploymentError", "exists")
       ELSE dpc' = "create" /\ dresult' = NotEnded
    /\ UNCHANGED <<map_file, instances, launched, environ, sshvars>>

\* create_instance: the launch request.
DeployLaunch(answer) ==
    /\ dpc = "create"
    /\ calls' = [calls EXCEPT !.launch = @ + 1]
    /\ IF answer \in {"instance_ids", "operation"}
       THEN /\ launched < MaxInstances
            /\ launched' = launched + 1
            /\ instances' = instances \cup {launched'}
       ELSE UNCHANGED <<launched, instances>>
    /\ IF launch_outcome(answer) = "wait"
       THEN /\ dinst' = [id |-> launched', ip |-> None]
            /\ dpc' = "wait1"
            /\ UNCHANGED dresult
       ELSE IF launch_outcome(answer) = "again"
       THEN UNCHANGED <<dpc, dresult, dinst>>
       ELSE /\ Raised(answer)
            /\ UNCHANGED dinst
    /\ UNCHANGED <<map_file, dop, dname, dstates, issued, boot_log, envvars, sshvars,
                   loaded, probed>>

\* wait_for_instance, called by create_instance and again by deploy_preset:
\* it returns an Instance with its address or raises LambdaAPIError.
DeployWait(answer) ==
    /\ dpc \in {"wait1", "wait2"}
    /\ calls' = [calls EXCEPT !.get = @ + 1]
    /\ IF answer = "address"
       THEN /\ dinst' = [dinst EXCEPT !.ip = AddressOf(dinst.id)]
            /\ dpc' = IF dpc = "wait1" THEN "wait2" ELSE "record"
            /\ UNCHANGED dresult
       ELSE /\ Raised(answer)
            /\ UNCHANGED dinst
    /\ UNCHANGED <<map_file, instances, launched, dop, dname, dstates, issued,
                   boot_log, envvars, sshvars, loaded, probed>>

\* states[name] = DeploymentState(...); _write_states(states)
DeployRecord(os_error) ==
    /\ dpc = "record"
    /\ dstates' = [n \in DOMAIN dstates \cup {dname} |->
                      IF n = dname THEN DeploymentState(dname, dinst.id, dinst.ip)
                      ELSE dstates[n]]
    /\ map_file' = write_states(map_file, dstates', os_error)
    /\ IF os_error THEN End("OSError", "write")
       ELSE dpc' = "boot" /\ UNCHANGED dresult
    /\ UNCHANGED <<instances, launched, dop, dname, dinst, calls, issued, boot_log,
                   envvars, sshvars, loaded, probed>>

\* _bootstrap_remote: the next step is handed to _ssh; before the last one
\* the env flags are built.
BootIssue ==
    /\ dpc = "boot"
    /\ spc = "idle"
    /\ LET k == Len(boot_log) + 1
           r == build_env_flags(env, environ)
       IN  IF k = Len(BootSteps) /\ r.raised
           THEN /\ flags' = [called |-> TRUE, raised |-> TRUE, key |-> r.key,
                             parts |-> r.parts]
                /\ End("DeploymentError", "env")
                /\ UNCHANGED <<issued, sshvars>>
           ELSE /\ flags' = IF k = Len(BootSteps)
                            THEN [called |-> TRUE, raised |-> FALSE, key |-> None,
                                  parts |-> r.parts]
                            ELSE flags
                /\ issued' = Append(issued, BootSteps[k])
                /\ SshCall(DefaultRetries, DefaultDelay)
                /\ dpc' = "ssh"
                /\ UNCHANGED dresult
    /\ UNCHANGED <<map_file, instances, launched, dop, dname, dstates, dinst, calls,
                   boot_log, environ, env, loaded, probed>>

ssh_returned_always(pc) == TRUE

\* _ssh returned (it did not raise)
ssh_returned(pc) == pc = "returned"

\* The _ssh call of a step is over: the next step, the return of
\* deploy_preset after the last one, or the DeploymentError of _ssh.
BootStepDone ==
    /\ dpc = "ssh"
    /\ spc \in {"returned", "raised"}
    /\ boot_log' = Append(boot_log, [step |-> issued[Len(issued)],
                                     returncode |-> ssh_log[Len(ssh_log)].returncode])
    /\ spc' = "idle"
    /\ ssh_log' = <<>>
    /\ sleeps' = 0
    /\ ssh_error' = None
    /\ IF ssh_returned(spc)
       THEN IF Len(boot_log') = Len(BootSteps) THEN End("ok", None)
            ELSE dpc' = "boot" /\ UNCHANGED dresult
       ELSE End("DeploymentError", "ssh")
    /\ UNCHANGED <<map_file, instances, launched, dop, dname, dstates, dinst, calls,
                   issued, envvars, ssh_retries, ssh_delay, loaded, probed>>

\* ------------------------------------------------------------------------
\* shutdown_preset
\* ------------------------------------------------------------------------
\* shutdown_preset(name) up to the provider: _read_states, the test for a
\* record, _get_preset.
ShutdownBegin(name, preset_ok) ==
    /\ dpc = "idle"
    /\ dop' = "shutdown"
    /\ dname' = name
    /\ calls' = NoCalls
    /\ issued' = <<>>
    /\ boot_log' = <<>>
    /\ dstates' = read_states(map_file)
    /\ loaded' = (name \in DOMAIN dstates')
    /\ probed' = NoProbe
    /\ IF name \notin DOMAIN dstates'
       THEN End("ok", "no record") /\ dinst' = NoDeployInstance
       ELSE IF ~preset_ok
       THEN End("DeploymentError", "preset") /\ dinst' = NoDeployInstance
       ELSE /\ dpc' = "delete"
            /\ dresult' = NotEnded
            /\ dinst' = [id |-> dstates'[name].instance_id, ip |-> dstates'[name].ip]
    /\ UNCHANGED <<map_file, instances, launched, envvars, sshvars>>

\* delete_instance, then states.pop(name) and _write_states(states)
ShutdownDelete(answer, os_error) ==
    /\ dpc = "delete"
    /\ calls' = [calls EXCEPT !.delete = @ + 1]
    /\ answer \in {"ok", "malformed"} => dinst.id \in instances
    /\ answer = "not_found" <=> dinst.id \notin instances
    /\ IF answer = "ok"
       THEN /\ instances' = instances \ {dinst.id}
            /\ dstates' = [n \in DOMAIN dstates \ {dname} |-> dstates[n]]
            /\ map_file' = write_states(map_file, dstates', os_error)
            /\ IF os_error THEN End("OSError", "write") ELSE End("ok", None)
       ELSE /\ ~os_error
            /\ Raised(answer)
            /\ instances' = IF answer = "malformed" THEN instances \ {dinst.id}
                             ELSE instances
            /\ UNCHANGED <<dstates, map_file>>
    /\ UNCHANGED <<launched, dop, dname, dinst, issued, boot_log, envvars, sshvars,
                   loaded, probed>>

\* ------------------------------------------------------------------------
\* status_preset
\* ------------------------------------------------------------------------
\* _http_get: the parsed body, or None on any exception (no answer within the
\* timeout, a body that is not JSON); then `if not data`
probe_data_falsy(probe) == probe \in {"refused", "not_json", "empty_object"}

\* status_preset(name): one call, with at most one probe.
StatusCall(name, preset_ok, probe) ==
    /\ dpc = "idle"
    /\ dop' = "status"
    /\ dname' = name
    /\ calls' = NoCalls
    /\ issued' = <<>>
    /\ boot_log' = <<>>
    /\ dstates' = read_states(map_file)
    /\ loaded' = (name \in DOMAIN dstates')
    /\ IF name \notin DOMAIN dstates'
       THEN /\ End("ok", "not deployed")
            /\ dinst' = NoDeployInstance
            /\ probed' = NoProbe
       ELSE /\ dinst' = [id |-> dstates'[name].instance_id, ip |-> dstates'[name].ip]
            /\ IF ~preset_ok
               THEN End("DeploymentError", "preset") /\ probed' = NoProbe
               ELSE /\ probed' = probe
                    /\ IF probe_data_falsy(probe) THEN End("ok", "DOWN")
                       ELSE End("ok", "UP")
    /\ UNCHANGED <<map_file, instances, launched, envvars, sshvars>>

\* ------------------------------------------------------------------------
\* Two invocations at once
\* ------------------------------------------------------------------------
\* deploy_preset and shutdown_preset as their steps on the shared STATE_FILE
\* and provider: the read and test at the start, the provider request, the
\* write at the end.  The provider answers every request in the normal way.
Procs == {1, 2}

NotStarted == [op |-> "none", name |-> None, pc |-> "idle", states |-> NoEntries,
               inst |-> 0, result |-> "none"]

InitRace ==
    /\ procs = [p \in Procs |-> NotStarted]
    /\ writes = <<>>

\* deploy_preset: _read_states and the test for an existing record
RaceDeployBegin(p, name) ==
    /\ procs[p].pc = "idle"
    /\ LET states == read_states(map_file)
       IN  procs' = [procs EXCEPT ![p] =
               IF already_deployed(name, states)
               THEN [NotStarted EXCEPT !.op = "deploy", !.name = name, !.states = states,
                                       !.pc = "done", !.result = "DeploymentError"]
               ELSE [NotStarted EXCEPT !.op = "deploy", !.name = name, !.states = states,
                                       !.pc = "create"]]
    /\ UNCHANGED <<map_file, instances, launched, writes>>

\* deploy_preset: create_instance and wait_for_instance
RaceCreate(p) ==
    /\ procs[p].pc = "create"
    /\ launched < MaxInstances
    /\ launched' = launched + 1
    /\ instances' = instances \cup {launched'}
    /\ procs' = [procs EXCEPT ![p].inst = launched', ![p].pc = "record"]
    /\ UNCHANGED <<map_file, writes>>

\* deploy_preset: states[name] = DeploymentState(...); _write_states(states)
RaceRecord(p) ==
    /\ procs[p].pc = "record"
    /\ LET me == procs[p]
           states == [n \in DOMAIN me.states \cup {me.name} |->
                         IF n = me.name
                         THEN DeploymentState(me.name, me.inst, AddressOf(me.inst))
                         ELSE me.states[n]]
       IN  /\ map_file' = write_states(map_file, states, FALSE)
           /\ procs' = [procs EXCEPT ![p].states = states, ![p].pc = "done",
                                     ![p].result = "ok"]
    /\ writes' = Append(writes, p)
    /\ UNCHANGED <<instances, launched>>

\* shutdown_preset: _read_states and the test for a record
RaceShutdownBegin(p, name) ==
    /\ procs[p].pc = "idle"
    /\ LET states == read_states(map_file)
       IN  procs' = [procs EXCEPT ![p] =
               IF name \notin DOMAIN states
               THEN [NotStarted EXCEPT !.op = "shutdown", !.name = name,
                                       !.states = states, !.pc = "done", !.result = "ok"]
               ELSE [NotStarted EXCEPT !.op = "shutdown", !.name = name,
                                       !.states = states, !.pc = "delete",
                                       !.inst = states[name].instance_id]]
    /\ UNCHANGED <<map_file, instances, launched, writes>>

\* shutdown_preset: delete_instance (HTTP 404 when the instance is gone)
RaceDelete(p) ==
    /\ procs[p].pc = "delete"
    /\ IF procs[p].inst \in instances
       THEN /\ instances' = instances \ {procs[p].inst}
            /\ procs' = [procs EXCEPT ![p].pc = "write"]
       ELSE /\ UNCHANGED instances
            /\ procs' = [procs EXCEPT ![p].pc = "done", ![p].result = "DeploymentError"]
    /\ UNCHANGED <<map_file, launched, writes>>

\* shutdown_preset: states.pop(name); _write_states(states)
RaceWrite(p) ==
    /\ procs[p].pc = "write"
    /\ LET me == procs[p]
           states == [n \in DOMAIN me.states \ {me.name} |-> me.states[n]]
       IN  /\ map_file' = write_states(map_file, states, FALSE)
           /\ procs' = [procs EXCEPT ![p].states = states, ![p].pc = "done",
                                     ![p].result = "ok"]
    /\ writes' = Append(writes, p)
    /\ UNCHANGED <<instances, launched>>

\* ------------------------------------------------------------------------
\* AgentAdapter
\* ------------------------------------------------------------------------
\* _load_state_blob: {} when there is no file or its text is not JSON,
\* otherwise what json.loads gives
load_state_blob(store) == store.data

NoPlan == [kind |-> "none", arg |-> None, raised |-> "none", valid |-> FALSE,
           current |-> None, next |-> <<>>]

\* The proposals of propose_plan
proposals ==
    [idle         |-> <<"planning">>,
     planning     |-> <<"provisioning">>,
     provisioning |-> <<"building">>,
     building     |-> <<"deploying">>,
     deploying    |-> <<"verifying">>,
     verifying    |-> <<"running">>]

\* propose_plan(): the last to_state of the stored history, "idle" without
\* one, and the proposals for it
propose_plan(store) ==
    LET recs == Get(load_state_blob(store), "history", <<>>)
        latest == IF recs = <<>> THEN "idle" ELSE recs[Len(recs)].to_state
    IN  IF store.kind = "array"
        THEN [NoPlan EXCEPT !.kind = "propose", !.raised = "AttributeError"]
        ELSE IF \E i \in 1..Len(recs) : ~Constructible(recs[i])
        THEN [NoPlan EXCEPT !.kind = "propose", !.raised = "TypeError"]
        ELSE [NoPlan EXCEPT !.kind = "propose", !.current = latest,
                            !.next = Get(proposals, latest, <<>>)]

\* validate_plan(proposed_state): membership in the stored table's entry for
\* the stored current state when the record has a non-empty table, otherwise
\* any state but the current one ("idle" without a record)
validate_plan(store, proposed_state) ==
    LET blob == load_state_blob(store)
        current == Get(blob, "current_state", "idle")
        has_table == /\ "allowed_transitions" \in DOMAIN blob
                     /\ DOMAIN blob.allowed_transitions # {}
    IN  IF store.kind = "array"
        THEN [NoPlan EXCEPT !.kind = "validate", !.arg = proposed_state,
                            !.raised = "AttributeError"]
        ELSE [NoPlan EXCEPT !.kind = "validate", !.arg = proposed_state,
                            !.valid = IF has_table
                                      THEN proposed_state \in
                                             Range(Get(blob.allowed_transitions, current, <<>>))
                                      ELSE proposed_state # current]

ProposePlan ==
    /\ plan' = propose_plan(state_store)

ValidatePlan(proposed_state) ==
    /\ plan' = validate_plan(state_store, proposed_state)

InitAgent == plan = NoPlan

\* ------------------------------------------------------------------------
\* The command line (cli/intelligensi_deploy.py)
\* ------------------------------------------------------------------------
\* The exit status of `main` for a command whose orchestrator call ended
\* with res: deploy and shutdown turn DeploymentError into SystemExit(text),
\* status returns "Status check failed: ..." for main to print, and any other
\* exception ends the process with a traceback.
cli_exit(command, res) ==
    IF res.kind = "ok" THEN 0
    ELSE IF res.kind = "DeploymentError" /\ command = "status" THEN 0
    ELSE 1

InitDeploy ==
    /\ map_file = NoMap
    /\ instances = {}
    /\ launched = 0
    /\ dpc = "idle"
    /\ dop = "none"
    /\ dname = None
    /\ dstates = NoEntries
    /\ dinst = NoDeployInstance
    /\ calls = NoCalls
    /\ issued = <<>>
    /\ boot_log = <<>>
    /\ dresult = NotEnded
    /\ loaded = FALSE
    /\ probed = NoProbe
    /\ InitRace
    /\ InitAgent

\* ------------------------------------------------------------------------
\* Specifications
\* ------------------------------------------------------------------------
InitSM ==
    /\ alive = FALSE
    /\ initial_state = "idle"
    /\ current_state = "idle"
    /\ allowed_transitions = default_transitions
    /\ history = <<>>
    /\ event_hook = "none"
    /\ op = "none"
    /\ target = None
    /\ outcome = "ok"
    /\ hook_calls = 0
    /\ snapshot = NoSnapshot

InitWait ==
    /\ wpc = "idle"
    /\ clock = 0
    /\ start = 0
    /\ timeout = 0
    /\ last_status = "pending"
    /\ polls = <<>>
    /\ poll_times = <<>>
    /\ wresult = NoResult

InitialStates == {"idle", "running"}
Hooks == {"none", "ok", "raises"}
Targets == States \cup {Bogus}

\* The program constructs its StateMachine with the same arguments each time
\* it starts; which ones is free.
ConstructorArgs ==
    [initial_state : InitialStates, allowed_transitions : TableArgs, event_hook : Hooks]

DefaultArgs ==
    [initial_state |-> "idle", allowed_transitions |-> NoneArg, event_hook |-> "none"]

Init ==
    /\ InitSM
    /\ state_store \in InitialStores
    /\ args \in ConstructorArgs
    /\ InitWait
    /\ InitSsh
    /\ InitEnv
    /\ InitDeploy

\* What the StateMachine never touches.
others == <<waitvars, sshvars, envvars, depvars, racevars, agentvars>>

Next ==
    \/ Construct(args.initial_state, args.allowed_transitions, args.event_hook)
          /\ UNCHANGED others
    \/ \E t \in Targets, ctx \in ContextArgs, os_error \in BOOLEAN :
          /\ Permitted(allowed_transitions, current_state, t)
          /\ Transition(t, ctx, os_error) /\ UNCHANGED others
    \/ \E t \in Targets :
          /\ ~Permitted(allowed_transitions, current_state, t)
          /\ Transition(t, None, FALSE) /\ UNCHANGED others
    \/ \E os_error \in BOOLEAN : Reset(os_error) /\ UNCHANGED others
    \/ GetHistory /\ UNCHANGED others
    \/ \E pop \in BOOLEAN : MutateSnapshot(pop) /\ UNCHANGED others

Spec == Init /\ [][Next]_vars

\* The StateMachine with its default table, over no stored record, started
\* in any of its states.
InitT ==
    /\ InitSM
    /\ state_store = NoFile
    /\ args \in [initial_state : States, allowed_transitions : {NoneArg},
                 event_hook : {"none"}]
    /\ InitWait
    /\ InitSsh
    /\ InitEnv
    /\ InitDeploy

SpecTable == InitT /\ [][Next]_vars

\* An AgentAdapter beside a StateMachine built with the defaults, over the
\* same state_store, which starts without a file.
agentrest == <<smvars, waitvars, sshvars, envvars, depvars, racevars>>

NextAgent ==
    \/ Next
    \/ ProposePlan /\ UNCHANGED agentrest
    \/ \E t \in Targets : ValidatePlan(t) /\ UNCHANGED agentrest

InitW ==
    /\ InitSM
    /\ state_store = NoFile
    /\ args = DefaultArgs
    /\ InitWait
    /\ InitSsh
    /\ InitEnv
    /\ InitDeploy

SpecAgent == InitW /\ [][NextAgent]_vars

NextWait ==
    \/ \E tmo \in Timeouts : WaitCall(tmo) /\ UNCHANGED <<smvars, sshvars, envvars, depvars, racevars, agentvars>>
    \/ \E inst \in PollResults, lat \in Latencies : WaitPoll(inst, lat) /\ UNCHANGED <<smvars, sshvars, envvars, depvars, racevars, agentvars>>
    \/ \E lat \in Latencies : WaitPollFails(lat) /\ UNCHANGED <<smvars, sshvars, envvars, depvars, racevars, agentvars>>

SpecWait == InitW /\ [][NextWait]_vars

\* _ssh on its own, with any retries >= 1 and any run of process results.
NextSsh ==
    \/ \E n \in 1..MaxRetries, d \in Delays :
          SshCall(n, d) /\ UNCHANGED <<smvars, waitvars, envvars, depvars, racevars, agentvars>>
    \/ \E p \in SshResults : SshAttempt(p) /\ UNCHANGED <<smvars, waitvars, envvars, depvars, racevars, agentvars>>

SpecSsh == InitW /\ [][NextSsh]_vars

\* One of the two blocking loops runs, and every request or ssh process it
\* starts ends: a call that can take a turn of its loop does take it.
NextLoops ==
    \/ spc = "idle" /\ NextWait
    \/ wpc = "idle" /\ NextSsh

SpecLoops == InitW /\ [][NextLoops]_vars /\ WF_vars(NextLoops)

\* _build_env_flags on its own, over every env and environment in the bounds.
InitE ==
    /\ InitSM
    /\ state_store = NoFile
    /\ args = DefaultArgs
    /\ InitWait
    /\ InitSsh
    /\ environ \in SUBSET EnvNames
    /\ env \in {d \in EnvDicts : DistinctKeys(d)}
    /\ flags = NoFlags
    /\ InitDeploy

NextEnv == BuildEnvFlags /\ UNCHANGED <<smvars, waitvars, sshvars, depvars, racevars, agentvars>>

SpecEnv == InitE /\ [][NextEnv]_vars

\* Non-overlapping deploy_preset and shutdown_preset calls over one
\* deployment map and one provider.
InitD ==
    /\ InitSM
    /\ state_store = NoFile
    /\ args = DefaultArgs
    /\ InitWait
    /\ InitSsh
    /\ environ \in {{"A", "HF_TOKEN"}, {"A"}}
    /\ env = <<>>
    /\ flags = NoFlags
    /\ map_file \in InitialMaps
    /\ instances = {}
    /\ launched = 0
    /\ dpc = "idle"
    /\ dop = "none"
    /\ dname = None
    /\ dstates = NoEntries
    /\ dinst = NoDeployInstance
    /\ calls = NoCalls
    /\ issued = <<>>
    /\ boot_log = <<>>
    /\ dresult = NotEnded
    /\ loaded = FALSE
    /\ probed = NoProbe
    /\ InitRace
    /\ InitAgent

NextDeploy ==
    \/ \E name \in Presets, preset_ok \in BOOLEAN, penv \in PresetEnvs :
          DeployBegin(name, preset_ok, penv) /\ UNCHANGED <<smvars, waitvars, racevars, agentvars>>
    \/ \E answer \in LaunchAnswers : DeployLaunch(answer) /\ UNCHANGED <<smvars, waitvars, racevars, agentvars>>
    \/ \E answer \in WaitAnswers : DeployWait(answer) /\ UNCHANGED <<smvars, waitvars, racevars, agentvars>>
    \/ \E os_error \in BOOLEAN : DeployRecord(os_error) /\ UNCHANGED <<smvars, waitvars, racevars, agentvars>>
    \/ BootIssue /\ UNCHANGED <<smvars, waitvars, racevars, agentvars>>
    \/ \E p \in DeployResults :
          dpc = "ssh" /\ SshAttempt(p) /\ UNCHANGED <<smvars, waitvars, envvars, depvars, racevars, agentvars>>
    \/ BootStepDone /\ UNCHANGED <<smvars, waitvars, racevars, agentvars>>
    \/ \E name \in Presets, preset_ok \in BOOLEAN :
          ShutdownBegin(name, preset_ok) /\ UNCHANGED <<smvars, waitvars, racevars, agentvars>>
    \/ \E answer \in DeleteAnswers, os_error \in BOOLEAN :
          ShutdownDelete(answer, os_error) /\ UNCHANGED <<smvars, waitvars, racevars, agentvars>>
    \/ \E name \in Presets, preset_ok \in BOOLEAN, probe \in ProbeAnswers :
          StatusCall(name, preset_ok, probe) /\ UNCHANGED <<smvars, waitvars, racevars, agentvars>>

SpecDeploy == InitD /\ [][NextDeploy]_vars

\* Two invocations, each one call of deploy_preset or shutdown_preset, over
\* a map that is empty or holds the record of a deployed B.
DeployedB == DeploymentState("B", 1, AddressOf(1))

InitR ==
    /\ InitSM
    /\ state_store = NoFile
    /\ args = DefaultArgs
    /\ InitWait
    /\ InitSsh
    /\ InitEnv
    /\ \/ map_file = NoMap /\ instances = {} /\ launched = 0
       \/ /\ map_file = MapDoc([n \in {"B"} |-> DeployedB])
          /\ instances = {1}
          /\ launched = 1
    /\ dpc = "idle"
    /\ dop = "none"
    /\ dname = None
    /\ dstates = NoEntries
    /\ dinst = NoDeployInstance
    /\ calls = NoCalls
    /\ issued = <<>>
    /\ boot_log = <<>>
    /\ dresult = NotEnded
    /\ loaded = FALSE
    /\ probed = NoProbe
    /\ InitRace
    /\ InitAgent

racerest == <<smvars, waitvars, sshvars, envvars, dpc, dop, dname, dstates, dinst,
              calls, issued, boot_log, dresult, loaded, probed, plan>>

NextRace ==
    \/ \E p \in Procs, name \in Presets : RaceDeployBegin(p, name) /\ UNCHANGED racerest
    \/ \E p \in Procs : RaceCreate(p) /\ UNCHANGED racerest
    \/ \E p \in Procs : RaceRecord(p) /\ UNCHANGED racerest
    \/ \E p \in Procs, name \in Presets : RaceShutdownBegin(p, name) /\ UNCHANGED racerest
    \/ \E p \in Procs : RaceDelete(p) /\ UNCHANGED racerest
    \/ \E p \in Procs : RaceWrite(p) /\ UNCHANGED racerest

SpecRace == InitR /\ [][NextRace]_vars

\* ------------------------------------------------------------------------
\* Properties of the StateMachine (checked under Spec)
\* ------------------------------------------------------------------------
\* T is a member of table[S]; a state with no entry permits nothing.
InTable(table, S, T) ==
    /\ S \in DOMAIN table
    /\ \E i \in 1..Len(table[S]) : table[S][i] = T

IsPrefix(a, b) == Len(a) <= Len(b) /\ SubSeq(b, 1, Len(a)) = a

Last(h) == h[Len(h)]

\* C1: transition(T) from current state S is applied iff T is in table[S].
\* When it is, the current state becomes T and exactly one record from S to T
\* is appended; when it is not, StateTransitionError is raised and the current
\* state and the history stay as they were.  With the default table,
\* idle -> provisioning is permitted and provisioning -> running is not.
C1_TransitionIffPermitted ==
    [][op' = "transition" =>
         /\ IF InTable(allowed_transitions, current_state, target')
            THEN /\ outcome' # "StateTransitionError"
                 /\ current_state' = target'
                 /\ Len(history') = Len(history) + 1
                 /\ SubSeq(history', 1, Len(history)) = history
                 /\ Last(history').from_state = current_state
                 /\ Last(history').to_state = target'
            ELSE /\ outcome' = "StateTransitionError"
                 /\ current_state' = current_state
                 /\ history' = history
         /\ InTable(default_transitions, "idle", "provisioning")
         /\ ~InTable(default_transitions, "provisioning", "running")]_vars

\* The scenario of C1: provisioning was entered from idle (history length 1)
\* and transition("running") has just been refused.
C1_Witness ==
    /\ op = "transition"
    /\ allowed_transitions = default_transitions
    /\ outcome = "StateTransitionError"
    /\ target = "running"
    /\ current_state = "provisioning"
    /\ Len(history) = 1
    /\ history[1].from_state = "idle"
    /\ history[1].to_state = "provisioning"

\* C2: the current state is the to_state of the most recent history record,
\* or the initial state when the history is empty.
C2_CurrentIsLastDestination ==
    alive => current_state = IF history = <<>> THEN initial_state
                             ELSE Last(history).to_state

\* C3: whenever transition or reset returns normally, the stored record holds
\* the full state of the object (initial state, current state, table, history).
C3_PersistedBeforeReturn ==
    (alive /\ op \in {"transition", "reset"} /\ outcome = "ok") =>
        state_store = ObjectDoc([initial_state |-> initial_state,
                                 current_state |-> current_state,
                                 allowed_transitions |-> allowed_transitions,
                                 history |-> history])

\* The record fails to load as a whole: missing, not JSON, not an object, or
\* with a history entry that has missing or extra fields.
FailsToLoad(store) ==
    \/ store.kind \in {"absent", "garbage", "array"}
    \/ /\ store.kind = "object"
       /\ "history" \in DOMAIN store.data
       /\ \E i \in 1..Len(store.data.history) :
             LET r == store.data.history[i]
             IN  \/ \E k \in {"timestamp", "from_state", "to_state"} : k \notin DOMAIN r
                 \/ \E k \in DOMAIN r :
                       k \notin {"timestamp", "from_state", "to_state", "context"}

\* The table the caller's arguments stand for.
CallerTable ==
    IF args.allowed_transitions.is_none \/ DOMAIN args.allowed_transitions.table = {}
    THEN default_transitions
    ELSE args.allowed_transitions.table

\* C4: constructing over a record that fails to load never raises and leaves
\* initial state, current state, table and history at the caller's defaults.
C4_CorruptRecordYieldsDefaults ==
    (op = "construct" /\ FailsToLoad(state_store)) =>
        /\ outcome = "ok"
        /\ alive
        /\ initial_state = args.initial_state
        /\ current_state = args.initial_state
        /\ allowed_transitions = CallerTable
        /\ history = <<>>

\* C5: after transition and reset calls, a new StateMachine constructed on
\* the same store has the same current state, initial state, table and
\* history as the one that made the calls.
C5_RoundTrip ==
    [][(alive /\ op \in {"transition", "reset"} /\ op' = "construct") =>
         /\ alive'
         /\ current_state' = current_state
         /\ initial_state' = initial_state
         /\ allowed_transitions' = allowed_transitions
         /\ history' = history]_vars

\* C6: after each transition or reset that was applied, the hook (when there
\* is one) has been called once, and the call returns normally even when the
\* hook raises.
C6_HookFailureIsolated ==
    (alive /\ op \in {"transition", "reset"} /\ outcome # "StateTransitionError") =>
        /\ hook_calls = IF event_hook = "none" THEN 0 ELSE 1
        /\ outcome = "ok"

\* C7: reset() is never refused by the transition table: it sets the current
\* state to the initial state and appends exactly one record with from_state
\* null, to_state the initial state and context {reset: true}, leaving the
\* earlier records as they were.
C7_ResetForcesInitial ==
    [][op' = "reset" =>
         /\ outcome' # "StateTransitionError"
         /\ current_state' = initial_state
         /\ initial_state' = initial_state
         /\ history' = Append(history,
                              [timestamp |-> Now, from_state |-> None,
                               to_state |-> initial_state, context |-> ResetCtx])]_vars

\* A reset that the table would not have allowed as a transition, on top of
\* an earlier record.
C7_Witness ==
    /\ op = "reset"
    /\ Len(history) >= 2
    /\ Last(history).from_state = None
    /\ Last(history).context = ResetCtx
    /\ current_state = initial_state
    /\ ~InTable(allowed_transitions, history[Len(history) - 1].to_state, initial_state)

\* C8: across transition, reset and get_history the old history is a prefix
\* of the new one; a refused transition appends nothing; get_history returns
\* the history, and changing the returned list leaves the history alone.
C8_HistoryAppendOnly ==
    [][op' \in {"transition", "reset", "get_history", "mutate_snapshot"} =>
         /\ IsPrefix(history, history')
         /\ (outcome' = "StateTransitionError" => history' = history)
         /\ (op' = "get_history" => snapshot'.items = history /\ history' = history)
         /\ (op' = "mutate_snapshot" => history' = history)]_vars

\* The caller has changed the list it got, and the history is not that list.
C8_Witness ==
    /\ op = "mutate_snapshot"
    /\ Len(history) >= 1
    /\ snapshot.items # history

\* C9: the current state is always one of the ten known states, whatever
\* table was supplied as an override or found in the stored record.
C9_OnlyKnownStates ==
    alive => current_state \in States

\* ------------------------------------------------------------------------
\* Properties of wait_for_instance (checked under SpecWait)
\* ------------------------------------------------------------------------
\* C10: a returned Instance has a non-empty address; it is the answer of the
\* first poll that reported one, and that poll is the last one issued.
C10_ReturnsFirstAddress ==
    wpc = "returned" =>
        /\ wresult.kind = "instance"
        /\ wresult.instance.ip \in Addresses
        /\ polls # <<>>
        /\ wresult.instance = polls[Len(polls)]
        /\ \A i \in 1..(Len(polls) - 1) : polls[i].ip \notin Addresses

\* Returned on the third poll, after two polls without an address.
C10_Witness ==
    /\ wpc = "returned"
    /\ Len(polls) = 3
    /\ polls[1].ip = None
    /\ polls[2].ip = ""
    /\ wresult.instance.ip \in Addresses

\* The documented scenario: budget of two poll intervals, the provider always
\* answers "booting" with no address, and the requests take no time, so that
\* poll i comes back (i - 1) intervals after the start.
BootingScenario ==
    /\ timeout = ScenarioTimeout
    /\ \A i \in 1..Len(polls) :
          /\ polls[i].status = "booting"
          /\ polls[i].ip = None
          /\ poll_times[i] = start + (i - 1) * PollInterval

\* C11 as claimed: a timeout error names the status of the last poll, and in
\* the scenario exactly two polls are made (t=0, t=10), the call fails at
\* t=20 and no poll is issued once the budget is used up.
C11_TwoPollsThenTimeout ==
    wresult.kind = "timeout" =>
        /\ wresult.status = polls[Len(polls)].status
        /\ BootingScenario =>
              /\ Len(polls) = 2
              /\ clock - start = ScenarioTimeout
              /\ \A i \in 1..Len(polls) : poll_times[i] - start < timeout

\* C11 as amended: a timeout error names the status of the last poll; no poll
\* reported an address; the budget is tested after each poll and strictly, so
\* the failing poll is the first to come back later than `timeout` after the
\* start.  In the scenario four polls are made (t=0, 10, 20, 30) and the call
\* fails at t=30 with "booting".
C11_TimeoutAfterLatePoll ==
    wresult.kind = "timeout" =>
        /\ polls # <<>>
        /\ wresult.status = polls[Len(polls)].status
        /\ \A i \in 1..Len(polls) : polls[i].ip \notin Addresses
        /\ poll_times[Len(polls)] - start > timeout
        /\ \A i \in 1..(Len(polls) - 1) : poll_times[i] - start <= timeout
        /\ BootingScenario =>
              /\ Len(polls) = 4
              /\ clock - start = 3 * PollInterval
              /\ wresult.status = "booting"

\* The scenario has run to its timeout error.
C11_Witness ==
    /\ wresult.kind = "timeout"
    /\ BootingScenario
    /\ Len(polls) = 4

\* ------------------------------------------------------------------------
\* Properties of _ssh (checked under SpecSsh)
\* ------------------------------------------------------------------------
\* C12: with retries = n >= 1, when every attempt fails exactly n attempts are
\* made and the DeploymentError carries the stderr (the stdout when stderr is
\* empty) of the last one; when attempt k <= n is the first to succeed the
\* call returns after exactly k attempts.
C12_ExactlyRetriesAttempts ==
    /\ Len(ssh_log) <= ssh_retries
    /\ \A i \in 1..(Len(ssh_log) - 1) : ssh_log[i].returncode # 0
    /\ spc = "raised" =>
          /\ Len(ssh_log) = ssh_retries
          /\ ssh_log[Len(ssh_log)].returncode # 0
          /\ ssh_error = IF ssh_log[Len(ssh_log)].stderr = ""
                         THEN ssh_log[Len(ssh_log)].stdout
                         ELSE ssh_log[Len(ssh_log)].stderr
    /\ spc = "returned" => ssh_log[Len(ssh_log)].returncode = 0
    /\ spc = "loop" => (ssh_log = <<>> \/ ssh_log[Len(ssh_log)].returncode # 0)

\* Three attempts failed, the last with an empty stderr, and the error was
\* raised with its stdout.
C12_Witness ==
    /\ spc = "raised"
    /\ ssh_retries = 3
    /\ Len(ssh_log) = 3
    /\ ssh_log[3].stderr = ""
    /\ ssh_error = "out"

\* C13: on persistent failure with retries = n exactly n - 1 sleeps are made:
\* none after the last failed attempt.
C13_SleepsOnlyBetweenAttempts ==
    spc = "raised" => sleeps = ssh_retries - 1

\* ------------------------------------------------------------------------
\* Termination of the two loops (checked under SpecLoops)
\* ------------------------------------------------------------------------
\* C14: a wait_for_instance call that loops eventually returns or raises, and
\* makes no more polls than its timeout allows; an _ssh call that loops
\* eventually returns or raises, after at most `retries` attempts; whatever the
\* provider and the remote host answer.
C14_LoopsTerminate ==
    /\ [](Len(polls) <= (timeout \div PollInterval) + 2)
    /\ [](Len(ssh_log) <= ssh_retries)
    /\ (wpc = "loop") ~> (wpc \in {"returned", "raised"})
    /\ (spc = "loop") ~> (spc \in {"returned", "raised"})

\* The provider never assigned an address and the call ended with the
\* timeout error after as many polls as the timeout allows.
C14_Witness ==
    /\ wpc = "raised"
    /\ wresult.kind = "timeout"
    /\ timeout = MaxTimeout
    /\ Len(polls) = (timeout \div PollInterval) + 2
    /\ \A i \in 1..Len(polls) : polls[i].ip = None

\* ------------------------------------------------------------------------
\* Properties of _build_env_flags (checked under SpecEnv)
\* ------------------------------------------------------------------------
\* C18: DeploymentError is raised whenever a non-null value still holds an
\* unresolved ${VAR} after expansion, as the whole value or as a part of it;
\* otherwise there is one flag per non-null entry, in configuration order.
C18_AnyUnresolvedPlaceholderRaises ==
    flags.called =>
        LET bad == {i \in 1..Len(env) :
                       /\ ~env[i].value.none
                       /\ \E j \in 1..Len(env[i].value.text) :
                             /\ env[i].value.text[j].ref
                             /\ env[i].value.text[j].text \notin environ}
            kept == {i \in 1..Len(env) : ~env[i].value.none}
        IN  /\ flags.raised <=> bad # {}
            /\ ~flags.raised =>
                  /\ Len(flags.parts) = Cardinality(kept)
                  /\ \A a, b \in 1..Len(flags.parts) :
                        a < b => \E i, j \in kept :
                                    /\ i < j
                                    /\ env[i].key = flags.parts[a].key
                                    /\ env[j].key = flags.parts[b].key

\* ------------------------------------------------------------------------
\* Properties of _bootstrap_remote and deploy_preset (checked under SpecDeploy)
\* ------------------------------------------------------------------------
\* The persisted map holds a well-formed record for name.
HasRecord(file, name) ==
    /\ file.kind = "object"
    /\ name \in DOMAIN file.data
    /\ {"preset", "instance_id", "ip"} \subseteq DOMAIN file.data[name]

\* C15: the remote steps are issued in the order of BootSteps; a step is
\* issued only after every step before it ended with return code 0; when a
\* step fails the bootstrap raises and no later step is issued.
C15_StepsInOrder ==
    /\ IsPrefix(issued, BootSteps)
    /\ Len(boot_log) <= Len(issued)
    /\ Len(issued) <= Len(boot_log) + 1
    /\ \A i \in 1..Len(boot_log) :
          /\ boot_log[i].step = issued[i]
          /\ i < Len(issued) => boot_log[i].returncode = 0
    /\ (boot_log # <<>> /\ Last(boot_log).returncode # 0) =>
          /\ dpc = "idle"
          /\ dresult = Ended("DeploymentError", "ssh")

\* The third step failed: two steps succeeded before it and none was issued
\* after it.
C15_Witness ==
    /\ dresult = Ended("DeploymentError", "ssh")
    /\ issued = <<"remove_old", "prep_install", "add_key">>
    /\ Len(boot_log) = 3
    /\ boot_log[3].returncode # 0

\* C16: once a step has succeeded (connectivity is established), a step
\* whose invocation returns non-zero is not invoked again: the bootstrap has
\* failed after that one invocation.
C16_StepsInvokedOnce ==
    (dpc = "ssh" /\ boot_log # <<>> /\ ssh_log # <<>> /\ ssh_log[1].returncode # 0) =>
        /\ Len(ssh_log) = 1
        /\ spc = "raised"

\* C17: when the configuration error of the env flags is raised, no remote
\* command has been issued.
C17_EnvErrorBeforeRemote ==
    dresult = Ended("DeploymentError", "env") => issued = <<>>

\* C19: a deploy_preset call for a preset with a record in the map, or with
\* HF_TOKEN unset, ends with DeploymentError, makes no provider request and
\* leaves the map and the provider as they were; and the provider launches an
\* instance only for a preset without a record.
C19_RefusedDeployTouchesNothing ==
    [][/\ (/\ dpc = "idle"
           /\ dop' = "deploy"
           /\ HasRecord(map_file, dname') \/ "HF_TOKEN" \notin environ)
          => /\ dpc' = "idle"
             /\ dresult'.kind = "DeploymentError"
             /\ calls' = NoCalls
             /\ map_file' = map_file
             /\ instances' = instances
             /\ launched' = launched
       /\ launched' # launched
          => /\ ~HasRecord(map_file, dname)
             /\ "HF_TOKEN" \in environ]_vars

\* A second deploy_preset of a deployed preset was refused: its instance is
\* the only one.
C19_Witness ==
    /\ dop = "deploy"
    /\ dresult = Ended("DeploymentError", "exists")
    /\ HasRecord(map_file, dname)
    /\ calls = NoCalls
    /\ launched = 1

\* C20: while deploy_preset runs, a record of its preset is in the map only
\* with the address obtained for its instance, and it is there when the first
\* bootstrap command is issued; when the bootstrap fails the record is still
\* in the map, the instance is live and no delete request was made.
C20_RecordBeforeBootstrap ==
    LET mine == /\ HasRecord(map_file, dname)
                /\ map_file.data[dname] = DeploymentState(dname, dinst.id, AddressOf(dinst.id))
    IN  /\ (dop = "deploy" /\ dpc # "idle" /\ HasRecord(map_file, dname)) =>
               /\ dinst.ip = AddressOf(dinst.id)
               /\ mine
        /\ (dop = "deploy" /\ (issued # <<>> \/ dpc = "boot")) => mine
        /\ (dop = "deploy" /\ dresult.why \in {"ssh", "env"}) =>
               /\ dresult.kind = "DeploymentError"
               /\ mine
               /\ dinst.id \in instances
               /\ calls.delete = 0

\* The bootstrap failed at its fifth step and the record is in the map.
C20_Witness ==
    /\ dop = "deploy"
    /\ dresult = Ended("DeploymentError", "ssh")
    /\ Len(issued) = 5
    /\ HasRecord(map_file, dname)
    /\ dinst.id \in instances
    /\ calls.delete = 0

C22_RemovalOnlyAfterDelete ==
    [][(dpc = "delete" /\ dop' = "shutdown")
       => /\ map_file' # map_file
             => (dinst.id \in instances /\ dinst.id \notin instances')
          /\ dresult'.why \in DeleteAnswers \ {"ok"}
             => /\ dresult'.kind = "DeploymentError"
                /\ map_file' = map_file
                /\ HasRecord(map_file', dname)]_vars

\* C23: when the provider answers the delete with not-found, shutdown_preset
\* returns normally and the record is removed.
C23_NotFoundIsSuccess ==
    (dop = "shutdown" /\ dresult.why = "not_found") =>
        /\ dresult.kind = "ok"
        /\ ~HasRecord(map_file, dname)

\* C26: a deploy, status or shutdown command exits non-zero when the
\* orchestrator call ended with DeploymentError, and with zero only when it
\* succeeded.
C26_ExitStatusFollowsOutcome ==
    (dpc = "idle" /\ dop \in {"deploy", "status", "shutdown"}) =>
        /\ dresult.kind = "DeploymentError" => cli_exit(dop, dresult) # 0
        /\ cli_exit(dop, dresult) = 0 => dresult.kind = "ok"

\* C27: a deploy_preset or shutdown_preset call that does not succeed ends
\* with DeploymentError.
C27_EveryFailureIsDeploymentError ==
    (dpc = "idle" /\ dop \in {"deploy", "shutdown"} /\ dresult.kind # "ok") =>
        dresult.kind = "DeploymentError"

\* C28: a call makes at most one launch and at most one delete request; a
\* launch answer without instance ids ends it at once with the provider
\* error, no further request made; a provider error during the address wait
\* ends it with that error.
C28_NoRetryOfCreateOrDelete ==
    /\ calls.launch <= 1
    /\ calls.delete <= 1
    /\ dresult.why = "no_instance_ids" =>
          /\ dpc = "idle"
          /\ dresult.kind = "DeploymentError"
          /\ calls = [launch |-> 1, get |-> 0, delete |-> 0]
    /\ dresult.why = "api_error" =>
          /\ dpc = "idle"
          /\ dresult.kind = "DeploymentError"
          /\ calls.launch = 1
          /\ calls.get <= 2

\* The launch was answered without instance ids and the call ended after
\* that one request.
C28_Witness ==
    /\ dop = "deploy"
    /\ dresult = Ended("DeploymentError", "no_instance_ids")
    /\ calls.launch = 1
    /\ calls.get = 0

\* C29: a launch answered with an operation handle does not make
\* create_instance fail for want of instance ids.
C29_AsyncLaunchIsPolled ==
    ~(dop = "deploy" /\ dresult = Ended("DeploymentError", "operation"))

\* C30: status_preset reports "not deployed" exactly for a preset without a
\* record, then without probing or loading the preset; with a record it
\* reports UP if the probe returned a body and DOWN otherwise; it makes no
\* provider request.
C30_StatusReport ==
    (dpc = "idle" /\ dop = "status") =>
        /\ calls = NoCalls
        /\ dresult.why = "not deployed" <=> ~HasRecord(map_file, dname)
        /\ dresult.why = "not deployed" => (probed = NoProbe /\ ~loaded)
        /\ (HasRecord(map_file, dname) /\ dresult.kind = "ok") =>
              /\ probed \in ProbeAnswers
              /\ dresult.why = "UP" <=> probed # "refused"
              /\ dresult.why = "DOWN" <=> probed = "refused"

\* ------------------------------------------------------------------------
\* Properties of two invocations at once (checked under SpecRace)
\* ------------------------------------------------------------------------
BothDone == \A p \in Procs : procs[p].pc = "done"

\* C24: when two invocations for different presets have both ended, the map
\* is what running them one after the other gives: a deployed preset has its
\* record, with the instance its deploy_preset created, a preset whose
\* deploy_preset was refused still has its record, and a preset that was shut
\* down has none.
C24_DifferentPresetsDoNotInterfere ==
    (BothDone /\ procs[1].name # procs[2].name) =>
        \A p \in Procs :
            /\ (procs[p].op = "deploy" /\ procs[p].result = "ok") =>
                  /\ HasRecord(map_file, procs[p].name)
                  /\ map_file.data[procs[p].name].instance_id = procs[p].inst
            /\ (procs[p].op = "deploy" /\ procs[p].result = "DeploymentError") =>
                  HasRecord(map_file, procs[p].name)
            /\ (procs[p].op = "shutdown" /\ procs[p].result = "ok") =>
                  ~HasRecord(map_file, procs[p].name)

\* C25: when two deploy_preset calls for the same preset have both created an
\* instance and ended, the map holds one record for the preset, that of the
\* call that wrote last, and the instance of the other call is live and no
\* record refers to it.
C25_SamePresetRace ==
    (/\ BothDone
     /\ \A p \in Procs : procs[p].op = "deploy" /\ procs[p].result = "ok"
     /\ procs[1].name = procs[2].name) =>
        LET last == writes[Len(writes)]
            first == CHOOSE p \in Procs : p # last
        IN  /\ Len(writes) = 2
            /\ HasRecord(map_file, procs[last].name)
            /\ map_file.data[procs[last].name].instance_id = procs[last].inst
            /\ procs[first].inst # procs[last].inst
            /\ {procs[first].inst, procs[last].inst} \subseteq instances
            /\ \A n \in DOMAIN map_file.data :
                  map_file.data[n].instance_id # procs[first].inst

\* Both calls passed the test for an existing record, both created an
\* instance, and the first instance is live without a record.
C25_Witness ==
    /\ BothDone
    /\ \A p \in Procs : procs[p].op = "deploy" /\ procs[p].name = "A" /\ procs[p].result = "ok"
    /\ writes = <<1, 2>>
    /\ instances = {1, 2}
    /\ map_file = MapDoc([n \in {"A"} |-> DeploymentState("A", procs[2].inst, AddressOf(procs[2].inst))])

\* ------------------------------------------------------------------------
\* Properties of the default transition table (checked under SpecTable)
\* ------------------------------------------------------------------------
ErrorSources == {"planning", "provisioning", "building", "deploying", "verifying",
                 "running", "updating"}

\* C31: with the default table, transition("error") is applied from
\* planning, provisioning, building, deploying, verifying, running and
\* updating, and from idle, shutdown and error it raises
\* StateTransitionError and leaves the current state and the history as they
\* were.
C31_ErrorOnlyFromWorkingStates ==
    [][(op' = "transition" /\ target' = "error") =>
          IF current_state \in ErrorSources
          THEN /\ outcome' # "StateTransitionError"
               /\ current_state' = "error"
          ELSE /\ current_state \in {"idle", "shutdown", "error"}
               /\ outcome' = "StateTransitionError"
               /\ current_state' = current_state
               /\ history' = history]_vars

\* The workflow was shut down from running, and transition("error") was
\* refused there.
C31_Witness ==
    /\ op = "transition"
    /\ target = "error"
    /\ outcome = "StateTransitionError"
    /\ current_state = "shutdown"
    /\ Len(history) = 1
    /\ history[1].from_state = "running"

\* The states that sequences of transitions permitted by table lead to from
\* the states of seen.
RECURSIVE ReachableFrom(_, _)
ReachableFrom(table, seen) ==
    LET more == seen \cup UNION {Range(table[s]) : s \in seen \cap DOMAIN table}
    IN  IF more = seen THEN seen ELSE ReachableFrom(table, more)

\* C34: the table of a machine built with the defaults has the ten states as
\* its keys and names only keys as targets; every state is reachable from
\* idle and idle is reachable from every state, the current one included.
C34_TableClosedAndConnected ==
    alive =>
        /\ DOMAIN allowed_transitions = States
        /\ \A s \in States : Range(allowed_transitions[s]) \subseteq DOMAIN allowed_transitions
        /\ ReachableFrom(allowed_transitions, {"idle"}) = States
        /\ \A s \in States : "idle" \in ReachableFrom(allowed_transitions, {s})
        /\ "idle" \in ReachableFrom(allowed_transitions, {current_state})

\* The workflow failed while planning and came back to idle through error.
C34_Witness ==
    /\ alive
    /\ current_state = "idle"
    /\ Len(history) = 2
    /\ history[1].from_state = "planning"
    /\ history[1].to_state = "error"
    /\ history[2].from_state = "error"

\* ------------------------------------------------------------------------
\* Instances and records across deploy_preset and shutdown_preset (checked
\* under SpecDeploy)
\* ------------------------------------------------------------------------
\* Some record of the map refers to instance id.
Referenced(file, id) ==
    \E n \in DOMAIN file.data : HasRecord(file, n) /\ file.data[n].instance_id = id

\* C32: when deploy_preset has returned or raised, the instance it created,
\* if it is still live, is referenced by a record of the map.
C32_NoOrphanedInstance ==
    (dop = "deploy" /\ dpc = "idle" /\ dinst.id \in instances) =>
        Referenced(map_file, dinst.id)

\* C33: a step of a call for preset A leaves the record of every other
\* preset as it was (none added, none removed, the same preset, instance id
\* and address); the write of a deploy_preset adds the record of A and the
\* write of a successful shutdown_preset removes it.
C33_OnlyOwnRecordChanges ==
    [][/\ \A n \in Presets \ {dname'} :
             /\ HasRecord(map_file', n) <=> HasRecord(map_file, n)
             /\ HasRecord(map_file, n) =>
                   /\ map_file'.data[n].preset = map_file.data[n].preset
                   /\ map_file'.data[n].instance_id = map_file.data[n].instance_id
                   /\ map_file'.data[n].ip = map_file.data[n].ip
       /\ (dpc = "record" /\ dpc' = "boot") =>
             (~HasRecord(map_file, dname) /\ HasRecord(map_file', dname))
       /\ (dpc = "delete" /\ dresult'.kind = "ok") =>
             (HasRecord(map_file, dname) /\ ~HasRecord(map_file', dname))
       /\ (dresult'.kind \notin {"ok", "none"} /\ dpc # "ssh" /\ dpc # "boot") =>
             map_file' = map_file]_vars

\* A was deployed while B was: both records are in the map.
C33_Witness ==
    /\ dop = "deploy"
    /\ dname = "A"
    /\ dpc = "boot"
    /\ HasRecord(map_file, "A")
    /\ HasRecord(map_file, "B")
    /\ map_file.data["B"].instance_id = 1
    /\ map_file.data["A"].instance_id = 2

\* ------------------------------------------------------------------------
\* Properties of AgentAdapter (checked under SpecAgent)
\* ------------------------------------------------------------------------
\* transition(t) on a StateMachine constructed with the defaults over store
\* would be applied.
WouldSucceed(store, t) ==
    LET l == load_state(store, "idle", "idle", default_transitions)
    IN  /\ l.raised = "none"
        /\ InTable(l.allowed_transitions, l.current_state, t)

\* C35: validate_plan(T) answers true exactly when transition(T) on a
\* machine constructed over the same store would be applied, and every state
\* in the "next" of propose_plan() is one that validate_plan accepts.
C35_ValidatePlanAgreesWithMachine ==
    [][UNCHANGED smvars =>
          /\ plan'.kind = "validate" =>
                (plan'.valid <=> WouldSucceed(state_store, plan'.arg))
          /\ plan'.kind = "propose" =>
                \A i \in 1..Len(plan'.next) :
                    validate_plan(state_store, plan'.next[i]).valid]_vars

====
